---- MODULE Spec2Model ----
(***************************************************************************)
(* A model of the bl4-save-tools extraction scripts:                       *)
(*   scripts/extract_yaml.py   sort_dict, merge_lists, merge_yaml,         *)
(*                             extract_missionsets,                        *)
(*                             write_yaml_and_compressed, __main__         *)
(*   scripts/extract_lists.py  extract_and_merge, __main__                 *)
(*   scripts/update_blobs.py   update_blob_constant, main                  *)
(*                                                                         *)
(* Python values are tagged records [t, v]:                                *)
(*   str   v = the string as a sequence of code points                     *)
(*   int   v = the integer                                                 *)
(*   list  v = the sequence of elements                                    *)
(*   dict  v = the sequence of items [k, val] in insertion order (Python   *)
(*             dicts keep insertion order, and yaml.safe_dump with         *)
(*             sort_keys=False writes the keys in that order)              *)
(* An exception that escapes a function is the value Raise.                *)
(***************************************************************************)
EXTENDS Integers, Sequences, FiniteSets, TLC

PyStr(s) == [t |-> "str", v |-> s]
PyInt(n) == [t |-> "int", v |-> n]
PyList(xs) == [t |-> "list", v |-> xs]
PyDict(items) == [t |-> "dict", v |-> items]
Item(key, value) == [k |-> key, val |-> value]
Raise == [t |-> "raise", v |-> <<>>]

isinstance(x, type) == x.t = type

AllStr(xs) == \A i \in 1..Len(xs) : isinstance(xs[i], "str")

(***************************************************************************)
(* Strings: str.lower() on ASCII, and the code-point order Python's sort   *)
(* uses to compare two strings.                                            *)
(***************************************************************************)
lower_char(c) == IF c >= 65 /\ c <= 90 THEN c + 32 ELSE c

lower(s) == [i \in 1..Len(s) |-> lower_char(s[i])]

StrLess(a, b) ==
    \E i \in 1..Len(b) :
        /\ Len(a) >= i - 1
        /\ \A j \in 1..(i - 1) : a[j] = b[j]
        /\ (Len(a) = i - 1 \/ a[i] < b[i])

(***************************************************************************)
(* sorted(seq, key=...) / list.sort(key=...): a stable sort.  The operand  *)
(* is a sequence of records [key, item]; an element goes after every       *)
(* element whose key is not greater than its own.                          *)
(***************************************************************************)
RECURSIVE InsertByKey(_, _)
InsertByKey(sortedSeq, e) ==
    IF sortedSeq = <<>> THEN <<e>>
    ELSE IF StrLess(e.key, Head(sortedSeq).key) THEN <<e>> \o sortedSeq
    ELSE <<Head(sortedSeq)>> \o InsertByKey(Tail(sortedSeq), e)

RECURSIVE sorted(_)
sorted(s) ==
    IF s = <<>> THEN <<>>
    ELSE InsertByKey(sorted(SubSeq(s, 1, Len(s) - 1)), s[Len(s)])

Items(keyed) == [i \in 1..Len(keyed) |-> keyed[i].item]

(***************************************************************************)
(* str(x) as Python renders a value: a str is itself, and inside a         *)
(* container every element is rendered by repr().                          *)
(***************************************************************************)
Digit(d) == <<48 + d>>

RECURSIVE Digits(_)
Digits(n) == IF n < 10 THEN Digit(n) ELSE Digits(n \div 10) \o Digit(n % 10)

RECURSIVE JoinWith(_, _)
JoinWith(parts, sep) ==
    IF parts = <<>> THEN <<>>
    ELSE IF Len(parts) = 1 THEN parts[1]
    ELSE parts[1] \o sep \o JoinWith(Tail(parts), sep)

RECURSIVE py_repr(_)
py_repr(x) ==
    CASE x.t = "str" -> <<39>> \o x.v \o <<39>>
      [] x.t = "int" -> Digits(x.v)
      [] x.t = "list" ->
            <<91>> \o JoinWith([i \in 1..Len(x.v) |-> py_repr(x.v[i])], <<44, 32>>) \o <<93>>
      [] x.t = "dict" ->
            <<123>> \o JoinWith([i \in 1..Len(x.v) |->
                                    py_repr(x.v[i].k) \o <<58, 32>> \o py_repr(x.v[i].val)],
                                <<44, 32>>) \o <<125>>

py_str(x) == IF x.t = "str" THEN x.v ELSE py_repr(x)

(***************************************************************************)
(* x == y in Python: dicts are equal when they hold the same items in any  *)
(* order, lists when they hold equal elements in the same order.           *)
(***************************************************************************)
RECURSIVE Unordered(_)
Unordered(x) ==
    CASE x.t = "list" -> [t |-> "list", v |-> [i \in 1..Len(x.v) |-> Unordered(x.v[i])]]
      [] x.t = "dict" ->
            [t |-> "dict", v |-> {Item(x.v[i].k, Unordered(x.v[i].val)) : i \in 1..Len(x.v)}]
      [] OTHER -> x

py_eq(a, b) == Unordered(a) = Unordered(b)

(***************************************************************************)
(* dict helpers: `key in d`, d[key], d[key] = value (an existing key keeps *)
(* its position, a new key goes last).                                     *)
(***************************************************************************)
Keys(d) == {d.v[i].k : i \in 1..Len(d.v)}

Contains(d, key) == key \in Keys(d)

GetItem(d, key) == (CHOOSE i \in 1..Len(d.v) : d.v[i].k = key)

Lookup(d, key) == d.v[GetItem(d, key)].val

SetItem(d, key, value) ==
    IF Contains(d, key)
    THEN PyDict([d.v EXCEPT ![GetItem(d, key)] = Item(key, value)])
    ELSE PyDict(Append(d.v, Item(key, value)))

(***************************************************************************)
(* extract_yaml.py: sort_dict                                              *)
(***************************************************************************)
\* sort_dict with the list branch written sorted(set(...)): equal elements collapse
RECURSIVE sort_dict_set(_)
sort_dict_set(obj) ==
    IF isinstance(obj, "dict") THEN
        IF \E key \in Keys(obj) : ~isinstance(key, "str") THEN Raise
        ELSE LET order == Items(sorted([i \in 1..Len(obj.v) |->
                                [key |-> lower(obj.v[i].k.v), item |-> obj.v[i].k]]))
                 vals == [i \in 1..Len(order) |-> sort_dict_set(Lookup(obj, order[i]))]
             IN  IF \E i \in 1..Len(vals) : vals[i] = Raise THEN Raise
                 ELSE PyDict([i \in 1..Len(order) |-> Item(order[i], vals[i])])
    ELSE IF isinstance(obj, "list") THEN
        LET elems == [i \in 1..Len(obj.v) |-> sort_dict_set(obj.v[i])]
            first == SelectSeq([i \in 1..Len(elems) |-> [i |-> i, e |-> elems[i]]],
                               LAMBDA r : \A j \in 1..(r.i - 1) : elems[j] # r.e)
        IN  IF \E i \in 1..Len(elems) : elems[i] = Raise THEN Raise
            ELSE PyList(Items(sorted([i \in 1..Len(first) |->
                        [key |-> lower(py_str(first[i].e)), item |-> first[i].e]])))
    ELSE obj

RECURSIVE sort_dict(_)
sort_dict(obj) ==
    IF isinstance(obj, "dict") THEN
        IF \E key \in Keys(obj) : ~isinstance(key, "str") THEN Raise
        ELSE LET order == Items(sorted([i \in 1..Len(obj.v) |->
                                [key |-> lower(obj.v[i].k.v), item |-> obj.v[i].k]]))
                 vals == [i \in 1..Len(order) |-> sort_dict(Lookup(obj, order[i]))]
             IN  IF \E i \in 1..Len(vals) : vals[i] = Raise THEN Raise
                 ELSE PyDict([i \in 1..Len(order) |-> Item(order[i], vals[i])])
    ELSE IF isinstance(obj, "list") THEN
        LET elems == [i \in 1..Len(obj.v) |-> sort_dict(obj.v[i])]
        IN  IF \E i \in 1..Len(elems) : elems[i] = Raise THEN Raise
            ELSE PyList(Items(sorted([i \in 1..Len(elems) |->
                        [key |-> lower(py_str(elems[i])), item |-> elems[i]]])))
    ELSE obj

(***************************************************************************)
(* extract_yaml.py: merge_lists                                            *)
(***************************************************************************)
RECURSIVE IndexOld(_, _)
IndexOld(mapping, xs) ==
    IF xs = <<>> THEN mapping
    ELSE IndexOld(SetItem(mapping, PyStr(lower(Head(xs).v)), Head(xs)), Tail(xs))

\* IndexNew without the `if lk not in mapping` test: the incoming spelling wins
RECURSIVE IndexNewOverwrite(_, _)
IndexNewOverwrite(mapping, xs) ==
    IF xs = <<>> THEN mapping
    ELSE IndexNewOverwrite(SetItem(mapping, PyStr(lower(Head(xs).v)), Head(xs)), Tail(xs))

RECURSIVE IndexNew(_, _)
IndexNew(mapping, xs) ==
    IF xs = <<>> THEN mapping
    ELSE IF ~Contains(mapping, PyStr(lower(Head(xs).v)))
         THEN IndexNew(SetItem(mapping, PyStr(lower(Head(xs).v)), Head(xs)), Tail(xs))
         ELSE IndexNew(mapping, Tail(xs))

RECURSIVE AppendUnique(_, _)
AppendUnique(merged, xs) ==
    IF xs = <<>> THEN merged
    ELSE IF ~\E i \in 1..Len(merged) : py_eq(Head(xs), merged[i])
         THEN AppendUnique(Append(merged, Head(xs)), Tail(xs))
         ELSE AppendUnique(merged, Tail(xs))

merge_lists(old_list, new_list) ==
    IF \A i \in 1..Len(old_list \o new_list) : isinstance((old_list \o new_list)[i], "str")
    THEN LET mapping == IndexNew(IndexOld(PyDict(<<>>), old_list), new_list)
             merged == [i \in 1..Len(mapping.v) |-> mapping.v[i].val]
         IN  Items(sorted([i \in 1..Len(merged) |->
                        [key |-> lower(merged[i].v), item |-> merged[i]]]))
    ELSE LET merged == AppendUnique(old_list, new_list)
         IN  Items(sorted([i \in 1..Len(merged) |->
                        [key |-> lower(py_str(merged[i])), item |-> merged[i]]]))

(***************************************************************************)
(* extract_yaml.py: merge_yaml.  MergeLoop is the `for key, new_val in     *)
(* new.items()` loop from item i on; merge_yaml adds the sort of the keys  *)
(* of this level, whose key function x[0].lower() raises on a key that is  *)
(* not a str.                                                              *)
(***************************************************************************)
RECURSIVE merge_yaml(_, _)

\* MergeLoop without the `elif not isinstance(old_val, (dict, list))` test: the
\* incoming value replaces an existing dict or list of another shape
RECURSIVE MergeLoopOverwrite(_, _, _)
MergeLoopOverwrite(existing, new, i) ==
    IF i > Len(new.v) THEN existing
    ELSE LET key == new.v[i].k
             new_val == new.v[i].val
         IN  IF Contains(existing, key)
             THEN LET old_val == Lookup(existing, key)
                  IN  IF isinstance(old_val, "dict") /\ isinstance(new_val, "dict")
                      THEN LET sub == merge_yaml(old_val, new_val)
                           IN  IF sub = Raise THEN Raise
                               ELSE MergeLoopOverwrite(SetItem(existing, key, sub), new, i + 1)
                      ELSE IF isinstance(old_val, "list") /\ isinstance(new_val, "list")
                      THEN MergeLoopOverwrite(SetItem(existing, key,
                                        PyList(merge_lists(old_val.v, new_val.v))), new, i + 1)
                      ELSE MergeLoopOverwrite(SetItem(existing, key, new_val), new, i + 1)
             ELSE MergeLoopOverwrite(SetItem(existing, key, new_val), new, i + 1)

RECURSIVE MergeLoop(_, _, _)
MergeLoop(existing, new, i) ==
    IF i > Len(new.v) THEN existing
    ELSE LET key == new.v[i].k
             new_val == new.v[i].val
         IN  IF Contains(existing, key)
             THEN LET old_val == Lookup(existing, key)
                  IN  IF isinstance(old_val, "dict") /\ isinstance(new_val, "dict")
                      THEN LET sub == merge_yaml(old_val, new_val)
                           IN  IF sub = Raise THEN Raise
                               ELSE MergeLoop(SetItem(existing, key, sub), new, i + 1)
                      ELSE IF isinstance(old_val, "list") /\ isinstance(new_val, "list")
                      THEN MergeLoop(SetItem(existing, key,
                                        PyList(merge_lists(old_val.v, new_val.v))), new, i + 1)
                      ELSE IF ~(isinstance(old_val, "dict") \/ isinstance(old_val, "list"))
                      THEN MergeLoop(SetItem(existing, key, new_val), new, i + 1)
                      ELSE MergeLoop(existing, new, i + 1)
             ELSE MergeLoop(SetItem(existing, key, new_val), new, i + 1)

\* merge_yaml without the sort of the keys of this level
merge_yaml_unsorted(existing, new) == MergeLoop(existing, new, 1)

merge_yaml(existing, new) ==
    LET looped == MergeLoop(existing, new, 1)
    IN  IF looped = Raise THEN Raise
        ELSE IF \E key \in Keys(looped) : ~isinstance(key, "str") THEN Raise
        ELSE PyDict(Items(sorted([i \in 1..Len(looped.v) |->
                        [key |-> lower(looped.v[i].k.v), item |-> looped.v[i]]])))

(***************************************************************************)
(* The keys the extraction functions look up, as Python strs.              *)
(***************************************************************************)
k_missions == PyStr(<<109, 105, 115, 115, 105, 111, 110, 115>>)
k_local_sets == PyStr(<<108, 111, 99, 97, 108, 95, 115, 101, 116, 115>>)
k_stats == PyStr(<<115, 116, 97, 116, 115>>)
k_openworld == PyStr(<<111, 112, 101, 110, 119, 111, 114, 108, 100>>)
k_collectibles == PyStr(<<99, 111, 108, 108, 101, 99, 116, 105, 98, 108, 101, 115>>)
k_domains == PyStr(<<100, 111, 109, 97, 105, 110, 115>>)
k_local == PyStr(<<108, 111, 99, 97, 108>>)
k_unlockables == PyStr(<<117, 110, 108, 111, 99, 107, 97, 98, 108, 101, 115>>)
k_gbx_discovery_pg == PyStr(<<103, 98, 120, 95, 100, 105, 115, 99, 111, 118, 101, 114, 121, 95, 112, 103>>)
k_dlblob == PyStr(<<100, 108, 98, 108, 111, 98>>)
k_state == PyStr(<<115, 116, 97, 116, 101>>)
k_unique_rewards == PyStr(<<117, 110, 105, 113, 117, 101, 95, 114, 101, 119, 97, 114, 100, 115>>)

None == [t |-> "none", v |-> <<>>]

\* d.get(key, default); raises when d is no dict (None is what an empty document loads as)
get(d, key, default) ==
    IF d = Raise \/ ~isinstance(d, "dict") THEN Raise
    ELSE IF Contains(d, key) THEN Lookup(d, key) ELSE default

\* d[key]; raises KeyError / TypeError
subscript(d, key) ==
    IF d = Raise \/ ~isinstance(d, "dict") \/ ~Contains(d, key) THEN Raise
    ELSE Lookup(d, key)

(***************************************************************************)
(* extract_yaml.py: extract_missionsets.  sorted(d.keys()) compares the    *)
(* keys themselves: strs by code point, ints by value, and a str with an   *)
(* int raises TypeError.  (The documents of this model hold dicts as       *)
(* mission sets; dict(x) of anything else is taken to raise.)              *)
(***************************************************************************)
sorted_keys(d) ==
    IF \A key \in Keys(d) : isinstance(key, "str")
    THEN PyList(Items(sorted([i \in 1..Len(d.v) |->
                [key |-> d.v[i].k.v, item |-> d.v[i].k]])))
    ELSE IF \A key \in Keys(d) : isinstance(key, "int")
    THEN PyList(Items(sorted([i \in 1..Len(d.v) |->
                [key |-> <<d.v[i].k.v>>, item |-> d.v[i].k]])))
    ELSE Raise

\* the body of the loop over the mission sets: the copy of one mission set
missionset_copy(missionset) ==
    IF ~isinstance(missionset, "dict") THEN Raise
    ELSE IF Contains(missionset, k_missions)
            /\ isinstance(Lookup(missionset, k_missions), "dict")
    THEN LET order == sorted_keys(Lookup(missionset, k_missions))
         IN  IF order = Raise THEN Raise
             ELSE SetItem(missionset, k_missions,
                    PyDict([i \in 1..Len(order.v) |->
                        Item(order.v[i], Lookup(Lookup(missionset, k_missions), order.v[i]))]))
    ELSE missionset

extract_missionsets(data) ==
    LET local_sets == get(get(data, k_missions, PyDict(<<>>)), k_local_sets, PyDict(<<>>))
    IN  IF local_sets = Raise \/ ~isinstance(local_sets, "dict") THEN Raise
        ELSE LET order == sorted_keys(local_sets)
             IN  IF order = Raise THEN Raise
                 ELSE LET copies == [i \in 1..Len(order.v) |->
                                        missionset_copy(Lookup(local_sets, order.v[i]))]
                      IN  IF \E i \in 1..Len(copies) : copies[i] = Raise THEN Raise
                          ELSE PyDict([i \in 1..Len(order.v) |-> Item(order.v[i], copies[i])])

extract_collectibles(data) ==
    get(get(get(data, k_stats, PyDict(<<>>)), k_openworld, PyDict(<<>>)),
        k_collectibles, PyDict(<<>>))

extract_global_unlockables(data) ==
    get(get(get(data, k_domains, PyDict(<<>>)), k_local, PyDict(<<>>)),
        k_unlockables, PyDict(<<>>))

(***************************************************************************)
(* extract_lists.py: extract_locations_from_yaml, extract_rewards_from_yaml*)
(* re_split is re.split(r':\d:', s): the pieces between the matches of a   *)
(* colon, one digit and a colon, found left to right.                      *)
(***************************************************************************)
RECURSIVE re_split(_, _)
re_split(s, piece) ==
    IF s = <<>> THEN <<piece>>
    ELSE IF Len(s) >= 3 /\ s[1] = 58 /\ s[2] \in 48..57 /\ s[3] = 58
    THEN <<piece>> \o re_split(SubSeq(s, 4, Len(s)), <<>>)
    ELSE re_split(Tail(s), Append(piece, Head(s)))

extract_locations_from_yaml(data) ==
    LET dlblob == subscript(subscript(data, k_gbx_discovery_pg), k_dlblob)
    IN  IF dlblob = Raise \/ ~isinstance(dlblob, "str") THEN Raise
        ELSE PyList([i \in 1..Len(SelectSeq(re_split(dlblob.v, <<>>), LAMBDA loc : loc # <<>>)) |->
                PyStr(SelectSeq(re_split(dlblob.v, <<>>), LAMBDA loc : loc # <<>>)[i])])

extract_rewards_from_yaml(data) ==
    get(get(data, k_state, PyDict(<<>>)), k_unique_rewards, PyList(<<>>))

(***************************************************************************)
(* Text: str.strip(), the set of the stripped non-empty lines of a file,   *)
(* and sorted() of a set of strs.                                          *)
(***************************************************************************)
IsSpace(c) == c \in {9, 10, 11, 12, 13, 32}

RECURSIVE lstrip(_)
lstrip(s) == IF s # <<>> /\ IsSpace(Head(s)) THEN lstrip(Tail(s)) ELSE s

RECURSIVE rstrip(_)
rstrip(s) ==
    IF s # <<>> /\ IsSpace(s[Len(s)]) THEN rstrip(SubSeq(s, 1, Len(s) - 1)) ELSE s

strip(s) == rstrip(lstrip(s))

read_lines(lines) == {strip(lines[i]) : i \in 1..Len(lines)} \ {<<>>}

RECURSIVE sorted_set(_)
sorted_set(S) ==
    IF S = {} THEN <<>>
    ELSE LET least == CHOOSE x \in S : \A y \in S \ {x} : StrLess(x, y)
         IN  <<least>> \o sorted_set(S \ {least})

(***************************************************************************)
(* Files.  A text file is the sequence of its lines; a YAML file is the    *)
(* document it holds, key order included: safe_dump(sort_keys=False)       *)
(* writes the keys of a dict in insertion order and safe_load reads them   *)
(* back in document order.  zlib.compress followed by base64 is one-to-one *)
(* on its input, which is kept as the payload of the encoded string.       *)
(***************************************************************************)
NoFile == [t |-> "nofile", v |-> <<>>]
TextFile(lines) == [t |-> "lines", v |-> lines]
safe_dump(obj) == [t |-> "yaml", v |-> obj]
safe_load(text) == text.v
join_comma(entries) == [t |-> "csv", v |-> JoinWith(entries, <<44>>)]
b64_zlib(text) == [t |-> "b64", v |-> text]

\* `yaml.safe_load(f) or {}`: a falsy document ({} or []) loads as {}
load_or_empty(text) ==
    IF safe_load(text).t \in {"dict", "list"} /\ safe_load(text).v = <<>>
    THEN PyDict(<<>>) ELSE safe_load(text)

(***************************************************************************)
(* update_blobs.py: update_blob_constant.  blobs.js is whether the file    *)
(* exists, whether it binds the constant, and the literal bound to it.     *)
(***************************************************************************)
NoBlobs == [exists |-> FALSE, bound |-> FALSE, value |-> None]
UnboundBlobs == [exists |-> TRUE, bound |-> FALSE, value |-> None]
BoundBlobs(value) == [exists |-> TRUE, bound |-> TRUE, value |-> value]
OldLiteral == [t |-> "b64", v |-> [t |-> "old", v |-> <<>>]]

update_blob_constant(blobs_js, compressed_value) ==
    IF ~blobs_js.exists THEN [ok |-> FALSE, blobs |-> blobs_js]
    ELSE IF ~blobs_js.bound THEN [ok |-> FALSE, blobs |-> blobs_js]
    ELSE [ok |-> TRUE, blobs |-> BoundBlobs(compressed_value)]

(***************************************************************************)
(* extract_lists.py: extract_and_merge, the merge of lines 63-68.          *)
(***************************************************************************)
\* merge_entries comparing ignoring case: an entry equal to an existing one is dropped
merge_entries_ignoring_case(existing_entries, new_entries) ==
    sorted_set(existing_entries \cup
        {e \in new_entries : \A x \in existing_entries : lower(x) # lower(e)})

merge_entries(existing_entries, new_entries) ==
    sorted_set(existing_entries \cup new_entries)

(***************************************************************************)
(* The values the functions are applied to.  Strings are "a", "B" and "b"  *)
(* ("B" sorts before "a" by code point and after it ignoring case, and is  *)
(* "b" ignoring case); dicts hold up to three keys, lists up to MaxListLen *)
(* elements.                                                               *)
(***************************************************************************)
MaxListLen == 2

sA == PyStr(<<97>>)
sB == PyStr(<<66>>)
sb == PyStr(<<98>>)
KeyPool == {sA, sB, sb}
ScalarPool == {sA, sB, PyInt(1)}

SeqsUpTo(S, n) == UNION {[1..k -> S] : k \in 0..n}

Dicts1(keys, vals) == {PyDict(<<Item(k, v)>>) : k \in keys, v \in vals}

Dicts2(keys, vals) ==
    {PyDict(<<Item(ks[1], vs[1]), Item(ks[2], vs[2])>>) :
        ks \in {q \in keys \X keys : q[1] # q[2]}, vs \in vals \X vals}

Dicts3(keys, vals) ==
    {PyDict(<<Item(ks[1], vs[1]), Item(ks[2], vs[2]), Item(ks[3], vs[3])>>) :
        ks \in {q \in keys \X keys \X keys : q[1] # q[2] /\ q[1] # q[3] /\ q[2] # q[3]},
        vs \in vals \X vals \X vals}

\* elements of the lists handed to merge_lists
ListElems == KeyPool \cup {PyInt(1), PyDict(<<Item(sb, PyInt(1)), Item(sA, PyInt(1))>>),
                           PyDict(<<Item(sA, PyInt(1)), Item(sb, PyInt(1))>>)}
ListPool == SeqsUpTo(ListElems, MaxListLen)

\* values of the trees handed to sort_dict and to merge_yaml(X, X)
InnerDicts == {PyDict(<<>>)} \cup Dicts1(KeyPool, {sA, PyInt(1)})
                  \cup Dicts2(KeyPool, {sA, PyInt(1)})
TreeLists == {PyList(l) : l \in SeqsUpTo(KeyPool, MaxListLen)}
                 \cup {PyList(<<PyInt(1), PyInt(1)>>), PyList(<<sb, PyInt(1)>>)}
                 \cup {PyList(<<d>>) : d \in Dicts2({sA, sb}, {PyInt(1)})}
                 \cup {PyList(<<PyList(<<sb, sA>>)>>)}
TreeVals == ScalarPool \cup TreeLists \cup InnerDicts
TreePool == {PyDict(<<>>)} \cup Dicts1(KeyPool, TreeVals) \cup Dicts2(KeyPool, TreeVals)
                \cup Dicts3(KeyPool, {sA, PyInt(1)})

\* values of the trees handed to merge_yaml(X, Y): every shape on either side
PairVals == {sA, PyInt(1), PyList(<<sB>>), PyList(<<sb, sA>>),
             PyDict(<<>>), PyDict(<<Item(sb, PyInt(1)), Item(sA, sA)>>)}
PairPool == {PyDict(<<>>)} \cup Dicts1(KeyPool, PairVals) \cup Dicts2(KeyPool, PairVals)

(***************************************************************************)
(* The documents the tools are run on.  A source is a missing file, a file *)
(* the YAML parser rejects, or the document the parser returns (None for   *)
(* an empty file).                                                         *)
(***************************************************************************)
MaxRuns == 2

TreeKinds == {"missionsets", "collectibles", "unlockables"}
ListKinds == {"locations", "rewards"}

alpha == <<97, 108, 112, 104, 97>>
beta == <<98, 101, 116, 97>>
Beta == <<66, 101, 116, 97>>
gamma == <<103, 97, 109, 109, 97>>
gamma_sp == <<32, 103, 97, 109, 109, 97>>

MissingInput == [t |-> "missing", v |-> <<>>]
MalformedInput == [t |-> "malformed", v |-> <<>>]
Document(data) == [t |-> "doc", v |-> data]

Nested1(k1, x) == PyDict(<<Item(k1, x)>>)
Nested2(k1, k2, x) == Nested1(k1, Nested1(k2, x))
Nested3(k1, k2, k3, x) == Nested1(k1, Nested2(k2, k3, x))

\* mission sets / collectible categories: keys out of order, keys and list entries
\* that differ in case, a scalar against a list, a key that is no str, a set that is
\* no dict
SubtreePool ==
    { PyDict(<<>>),
      Nested1(sB, PyDict(<<Item(sb, PyInt(1)), Item(sA, PyInt(1))>>)),
      PyDict(<<Item(sb, Nested1(sA, PyInt(2))), Item(sB, Nested1(sA, PyInt(1)))>>),
      PyDict(<<Item(sA, Nested1(sA, PyInt(1))), Item(sB, Nested1(sA, PyInt(1)))>>),
      Nested2(sA, sA, PyList(<<sB, sb>>)),
      Nested2(sA, sA, PyList(<<sb, sA>>)),
      Nested2(sA, sA, sA),
      Nested1(sA, PyDict(<<Item(k_missions, PyDict(<<Item(sb, PyInt(1)), Item(sB, PyInt(2))>>)),
                           Item(sA, PyInt(1))>>)),
      Nested2(sA, PyInt(7), PyInt(1)),
      Nested1(sB, PyInt(1)) }

\* a category that is a list of dicts (collectibles and unlockables only)
CategoryPool ==
    SubtreePool \cup
    { Nested1(sA, PyList(<<PyDict(<<Item(sb, PyInt(1)), Item(sA, PyInt(1))>>)>>)) }

RewardLists ==
    LET E == {alpha, beta, Beta, gamma, gamma_sp}
    IN  {<<>>} \cup {<<PyStr(e)>> : e \in E} \cup {<<PyStr(e), PyStr(f)>> : e \in E, f \in E}

LocationBlobs ==
    LET E == {alpha, beta, Beta, gamma}
        sep == <<58, 49, 58>>
    IN  {<<>>} \cup E \cup {e \o sep \o f : e \in E, f \in E}
            \cup {sep \o e \o <<58, 50, 58>> \o sep : e \in E}

Sources(k) ==
    {MissingInput, MalformedInput, Document(None), Document(PyDict(<<>>))} \cup
    CASE k = "missionsets" ->
            {Document(Nested2(k_missions, k_local_sets, x)) : x \in SubtreePool}
      [] k = "collectibles" ->
            {Document(Nested3(k_stats, k_openworld, k_collectibles, x)) : x \in CategoryPool}
      [] k = "unlockables" ->
            {Document(Nested3(k_domains, k_local, k_unlockables, x)) : x \in CategoryPool}
      [] k = "rewards" ->
            {Document(Nested2(k_state, k_unique_rewards, PyList(l))) : l \in RewardLists}
      [] k = "locations" ->
            {Document(Nested2(k_gbx_discovery_pg, k_dlblob, PyStr(b))) : b \in LocationBlobs}

(***************************************************************************)
(* State.                                                                  *)
(*   op, argA, argB, res   a function applied on its own to chosen values  *)
(*   kind                  the subtree the tool is run for                 *)
(*   optComp, optBlobs     -mc/-cc/-uc given; -b given (blob_constant set) *)
(*   primary, compFile     the output file and its _compressed.txt         *)
(*   blobs                 blobs.js                                        *)
(*   tool, pc              the running script and its position             *)
(*   source, data, obj, existing, merged, b64    the script's locals       *)
(*   log                   the file effects of the run so far, in order    *)
(*   exitCode              the exit code of the last run, -1 while running *)
(*   fault                 the step an exception escaped from              *)
(*   published             what update_blob_constant returned              *)
(*   before                the files as they were when the run started     *)
(*   rerun                 the run repeats the previous, successful one    *)
(*   runs                  the number of extraction runs started           *)
(***************************************************************************)
VARIABLES op, argA, argB, res,
          kind, optComp, optBlobs,
          primary, compFile, blobs,
          tool, pc, source, data, obj, existing, merged, b64, log,
          exitCode, fault, published,
          before, rerun, runs

pureVars == <<op, argA, argB, res>>
cfgVars == <<kind, optComp, optBlobs>>
fsVars == <<primary, compFile, blobs>>
localVars == <<source, data, obj, existing, merged, b64>>
histVars == <<before, rerun, runs>>
runVars == <<cfgVars, fsVars, tool, pc, localVars, log, exitCode, fault, published, histVars>>
vars == <<pureVars, runVars>>

Snapshot == [primary |-> primary, compFile |-> compFile, blobs |-> blobs]

\* the state before any run: no output file yet, blobs.js in any of its three states
Init ==
    /\ op = "input" /\ argA = None /\ argB = None /\ res = None
    /\ kind \in TreeKinds \cup ListKinds
    /\ optComp \in BOOLEAN
    /\ optBlobs \in BOOLEAN
    /\ (kind \in ListKinds => optComp)
    /\ (optBlobs => optComp)
    /\ primary = NoFile
    /\ compFile = NoFile
    /\ blobs \in {NoBlobs, UnboundBlobs, BoundBlobs(OldLiteral)}
    /\ tool = "none" /\ pc = "idle"
    /\ source = None /\ data = None /\ obj = None
    /\ existing = None /\ merged = None /\ b64 = None
    /\ log = <<>>
    /\ exitCode = -1 /\ fault = "none" /\ published = "none"
    /\ before = [primary |-> NoFile, compFile |-> NoFile, blobs |-> blobs]
    /\ rerun = FALSE
    /\ runs = 0

\* the state in which the functions are applied on their own: no tool runs
InitCalls ==
    /\ op = "input" /\ argA = None /\ argB = None /\ res = None
    /\ kind = "rewards" /\ optComp = TRUE /\ optBlobs = FALSE
    /\ primary = NoFile
    /\ compFile = NoFile
    /\ blobs = NoBlobs
    /\ tool = "none" /\ pc = "idle"
    /\ source = None /\ data = None /\ obj = None
    /\ existing = None /\ merged = None /\ b64 = None
    /\ log = <<>>
    /\ exitCode = -1 /\ fault = "none" /\ published = "none"
    /\ before = [primary |-> NoFile, compFile |-> NoFile, blobs |-> NoBlobs]
    /\ rerun = FALSE
    /\ runs = 0

(***************************************************************************)
(* The functions applied on their own.                                     *)
(***************************************************************************)
CallSortDict ==
    /\ op = "input"
    /\ \E T \in TreePool \cup TreeVals :
        /\ op' = "sort_dict"
        /\ argA' = T
        /\ argB' = None
        /\ res' = sort_dict(T)
    /\ UNCHANGED runVars

CallMergeLists ==
    /\ op = "input"
    /\ \E old_list \in ListPool, new_list \in ListPool :
        /\ op' = "merge_lists"
        /\ argA' = PyList(old_list)
        /\ argB' = PyList(new_list)
        /\ res' = PyList(merge_lists(old_list, new_list))
    /\ UNCHANGED runVars

CallMergeYaml ==
    /\ op = "input"
    /\ \E pair \in (PairPool \X PairPool) \cup {<<X, X>> : X \in TreePool} :
        /\ op' = "merge_yaml"
        /\ argA' = pair[1]
        /\ argB' = pair[2]
        /\ res' = merge_yaml(pair[1], pair[2])
    /\ UNCHANGED runVars

NextPure == CallSortDict \/ CallMergeLists \/ CallMergeYaml

SpecPure == InitCalls /\ [][NextPure]_vars

(***************************************************************************)
(* One run of extract_lists.py (kind locations or rewards) or of           *)
(* extract_yaml.py with one output (kind missionsets, collectibles or      *)
(* unlockables), step by step.  An exception that escapes ends the process *)
(* with exit code 1.                                                       *)
(***************************************************************************)
Crash(step) ==
    /\ pc' = "done"
    /\ exitCode' = 1
    /\ fault' = step

Exit0 ==
    /\ pc' = "done"
    /\ exitCode' = 0
    /\ fault' = "none"

StartRun ==
    /\ pc \in {"idle", "done"}
    /\ runs < MaxRuns
    /\ \E src \in Sources(kind) :
        /\ source' = src
        /\ rerun' = (tool = "extract" /\ exitCode = 0 /\ source = src)
    /\ tool' = "extract"
    /\ pc' = "read_source"
    /\ data' = None /\ obj' = None /\ existing' = None /\ merged' = None /\ b64' = None
    /\ log' = <<>>
    /\ exitCode' = -1 /\ fault' = "none" /\ published' = "none"
    /\ before' = Snapshot
    /\ runs' = runs + 1
    /\ UNCHANGED <<pureVars, cfgVars, fsVars>>

\* open(input) and yaml.safe_load
ReadSource ==
    /\ pc = "read_source"
    /\ log' = Append(log, "read_source")
    /\ IF source.t \in {"missing", "malformed"}
       THEN Crash("read_source") /\ data' = data
       ELSE data' = source.v /\ pc' = "extract" /\ UNCHANGED <<exitCode, fault>>
    /\ UNCHANGED <<pureVars, cfgVars, fsVars, tool, source, obj, existing, merged, b64,
                   published, histVars>>

\* the new entries / the new subtree: set(extract_func(data)) in extract_and_merge,
\* extract_missionsets(data), sort_dict(extract_collectibles(data)) and
\* sort_dict(extract_global_unlockables(data)) in extract_yaml's main
NewEntries(extracted) ==
    IF extracted = Raise \/ ~isinstance(extracted, "list") \/ ~AllStr(extracted.v) THEN Raise
    ELSE [t |-> "set", v |-> {extracted.v[i].v : i \in 1..Len(extracted.v)}]

Extracted(k, d) ==
    CASE k = "missionsets" -> extract_missionsets(d)
      [] k = "collectibles" -> sort_dict(extract_collectibles(d))
      [] k = "unlockables" -> sort_dict(extract_global_unlockables(d))
      [] k = "rewards" -> NewEntries(extract_rewards_from_yaml(d))
      [] k = "locations" -> NewEntries(extract_locations_from_yaml(d))

Extract ==
    /\ pc = "extract"
    /\ IF Extracted(kind, data) = Raise
       THEN Crash("extract") /\ obj' = obj
       ELSE obj' = Extracted(kind, data) /\ pc' = "read_existing"
                /\ UNCHANGED <<exitCode, fault>>
    /\ UNCHANGED <<pureVars, cfgVars, fsVars, tool, source, data, existing, merged, b64,
                   log, published, histVars>>

\* the existing entries / the existing document, when the output file exists
ReadExisting ==
    /\ pc = "read_existing"
    /\ log' = Append(log, "read_existing")
    /\ existing' = IF kind \in ListKinds
                   THEN [t |-> "set",
                         v |-> IF primary = NoFile THEN {} ELSE read_lines(primary.v)]
                   ELSE IF primary = NoFile THEN None ELSE load_or_empty(primary)
    /\ pc' = "merge"
    /\ UNCHANGED <<pureVars, cfgVars, fsVars, tool, source, data, obj, merged, b64,
                   exitCode, fault, published, histVars>>

\* lines 63-73 of extract_lists.py: nothing to add returns before any write
MergeEntries ==
    /\ kind \in ListKinds
    /\ IF Cardinality(existing.v \cup obj.v) - Cardinality(existing.v) = 0
       THEN Exit0 /\ merged' = merged
       ELSE /\ merged' = TextFile(merge_entries(existing.v, obj.v))
            /\ pc' = "write_primary"
            /\ UNCHANGED <<exitCode, fault>>
    /\ UNCHANGED fsVars

\* lines 147-150 of extract_yaml.py
MergeTree ==
    /\ kind \in TreeKinds
    /\ LET result == IF existing = None THEN obj ELSE merge_yaml(existing, obj)
       IN  IF result = Raise
           THEN Crash("merge") /\ merged' = merged
           ELSE merged' = result /\ pc' = "write_primary" /\ UNCHANGED <<exitCode, fault>>
    /\ UNCHANGED fsVars

\* the output file opened for writing before the merge is computed
MergeAfterOpen ==
    /\ pc = "merge"
    /\ log' = Append(log, "merge")
    /\ primary' = IF kind \in ListKinds THEN TextFile(<<>>) ELSE safe_dump(PyDict(<<>>))
    /\ UNCHANGED <<compFile, blobs>>
    /\ IF kind \in ListKinds
       THEN IF Cardinality(existing.v \cup obj.v) - Cardinality(existing.v) = 0
            THEN Exit0 /\ merged' = merged
            ELSE /\ merged' = TextFile(merge_entries(existing.v, obj.v))
                 /\ pc' = "write_primary"
                 /\ UNCHANGED <<exitCode, fault>>
       ELSE LET result == IF existing = None THEN obj ELSE merge_yaml(existing, obj)
            IN  IF result = Raise
                THEN Crash("merge") /\ merged' = merged
                ELSE merged' = result /\ pc' = "write_primary"
                        /\ UNCHANGED <<exitCode, fault>>
    /\ UNCHANGED <<pureVars, cfgVars, tool, source, data, obj, existing, b64,
                   published, histVars>>

Merge ==
    /\ pc = "merge"
    /\ log' = Append(log, "merge")
    /\ (MergeEntries \/ MergeTree)
    /\ UNCHANGED <<pureVars, cfgVars, tool, source, data, obj, existing, b64,
                   published, histVars>>

WritePrimary ==
    /\ pc = "write_primary"
    /\ log' = Append(log, "write_primary")
    /\ primary' = IF kind \in ListKinds THEN merged ELSE safe_dump(merged)
    /\ IF kind \in ListKinds \/ optComp
       THEN pc' = "write_compressed" /\ UNCHANGED <<exitCode, fault>>
       ELSE Exit0
    /\ UNCHANGED <<pureVars, cfgVars, compFile, blobs, tool, localVars, published, histVars>>

Compressed(k, m) ==
    IF k \in ListKinds THEN b64_zlib(join_comma(m.v)) ELSE b64_zlib(safe_dump(m))

WriteCompressed ==
    /\ pc = "write_compressed"
    /\ log' = Append(log, "write_compressed")
    /\ b64' = Compressed(kind, merged)
    /\ compFile' = Compressed(kind, merged)
    /\ IF optBlobs
       THEN pc' = "publish" /\ UNCHANGED <<exitCode, fault>>
       ELSE Exit0
    /\ UNCHANGED <<pureVars, cfgVars, primary, blobs, tool, source, data, obj, existing,
                   merged, published, histVars>>

\* the caller drops what update_blob_constant returns
Publish ==
    /\ pc = "publish"
    /\ log' = Append(log, "publish")
    /\ blobs' = update_blob_constant(blobs, b64).blobs
    /\ published' = IF update_blob_constant(blobs, b64).ok THEN "ok" ELSE "failed"
    /\ Exit0
    /\ UNCHANGED <<pureVars, cfgVars, primary, compFile, tool, localVars, histVars>>

(***************************************************************************)
(* update_blobs.py: main, with -f (the compressed file), --yaml (the YAML  *)
(* output) or --text (the line list) as the input.                         *)
(***************************************************************************)
read_compressed_file(file) == file

compress_yaml_file(file) == b64_zlib(safe_dump(safe_load(file)))

\* one item, or lines without a comma, come to the stripped lines joined by commas
compress_text_list(file) ==
    b64_zlib(join_comma(SelectSeq([i \in 1..Len(file.v) |-> strip(file.v[i])],
                                  LAMBDA line : line # <<>>)))

UpdateBlobsInput(mode) ==
    CASE mode = "file" -> IF compFile = NoFile THEN NoFile ELSE read_compressed_file(compFile)
      [] mode = "yaml" -> IF primary = NoFile THEN NoFile ELSE compress_yaml_file(primary)
      [] mode = "text" -> IF primary = NoFile THEN NoFile ELSE compress_text_list(primary)

UpdateBlobsMain ==
    /\ pc \in {"idle", "done"}
    /\ tool' = "update_blobs"
    /\ \E mode \in {"file"} \cup (IF kind \in ListKinds THEN {"text"} ELSE {"yaml"}) :
        IF UpdateBlobsInput(mode) = NoFile
        THEN /\ Crash("missing_file")
             /\ published' = "none"
             /\ UNCHANGED blobs
        ELSE /\ blobs' = update_blob_constant(blobs, UpdateBlobsInput(mode)).blobs
             /\ IF update_blob_constant(blobs, UpdateBlobsInput(mode)).ok
                THEN published' = "ok" /\ Exit0
                ELSE published' = "failed" /\ Crash("none")
    /\ log' = <<>>
    /\ UNCHANGED <<pureVars, cfgVars, primary, compFile, localVars, histVars>>

Next ==
    \/ StartRun
    \/ ReadSource
    \/ Extract
    \/ ReadExisting
    \/ Merge
    \/ WritePrimary
    \/ WriteCompressed
    \/ Publish
    \/ UpdateBlobsMain

Spec == Init /\ [][Next]_vars

(***************************************************************************)
(* Helpers of the properties.                                              *)
(***************************************************************************)
\* the comparison merge_lists dedups by: ignoring case when every element of both
\* lists is a str, Python's == otherwise
SameElement(allstr, x, y) == IF allstr THEN lower(x.v) = lower(y.v) ELSE py_eq(x, y)

\* every list of x, at any depth, holds only strs and ints, no two of them equal
\* (ignoring case when every element of the list is a str)
RECURSIVE PlainDistinctLists(_)
PlainDistinctLists(x) ==
    CASE x.t = "list" ->
            /\ \A i \in 1..Len(x.v) : x.v[i].t \in {"str", "int"}
            /\ \A i, j \in 1..Len(x.v) :
                    i < j => ~SameElement(AllStr(x.v), x.v[i], x.v[j])
      [] x.t = "dict" -> \A i \in 1..Len(x.v) : PlainDistinctLists(x.v[i].val)
      [] OTHER -> TRUE

\* what a value holds when arrangement is ignored: a list is the bag of its
\* elements, a dict the set of its items
BagOfSeq(xs) ==
    [e \in {xs[i] : i \in 1..Len(xs)} |-> Cardinality({i \in 1..Len(xs) : xs[i] = e})]

RECURSIVE Content(_)
Content(x) ==
    CASE x.t = "list" ->
            [t |-> "list", v |-> BagOfSeq([i \in 1..Len(x.v) |-> Content(x.v[i])])]
      [] x.t = "dict" ->
            [t |-> "dict", v |-> {Item(x.v[i].k, Content(x.v[i].val)) : i \in 1..Len(x.v)}]
      [] OTHER -> x

\* the keys of every dict of x, at any depth, are in case-insensitive order
RECURSIVE KeysSorted(_)
KeysSorted(x) ==
    CASE x.t = "list" -> \A i \in 1..Len(x.v) : KeysSorted(x.v[i])
      [] x.t = "dict" ->
            /\ \A i \in 1..Len(x.v) : KeysSorted(x.v[i].val)
            /\ \A i \in 1..(Len(x.v) - 1) :
                    ~StrLess(lower(x.v[i + 1].k.v), lower(x.v[i].k.v))
      [] OTHER -> TRUE

(***************************************************************************)
(* C1 as written: for any mapping tree X, merge_yaml(X, copy of X) equals  *)
(* sort_dict(X), the order of the keys and of the list elements included.  *)
(***************************************************************************)
C1_MergeSelfIsCanonical ==
    (op = "merge_yaml" /\ argA = argB) => res = sort_dict(argA)

(***************************************************************************)
(* C1 amended: for any mapping tree X whose lists hold only strings and    *)
(* integers, no two elements of a list equal (ignoring case when the list  *)
(* is all strings), merge_yaml(X, copy of X) equals sort_dict(X), order    *)
(* included.                                                               *)
(***************************************************************************)
C1_MergeSelfIsCanonicalOnPlainLists ==
    (op = "merge_yaml" /\ argA = argB /\ PlainDistinctLists(argA))
        => res = sort_dict(argA)

C1_Witness ==
    /\ op = "merge_yaml" /\ argA = argB /\ PlainDistinctLists(argA)
    /\ res # argA
    /\ \E i \in 1..Len(argA.v) :
            /\ isinstance(argA.v[i].val, "list")
            /\ Len(argA.v[i].val.v) = 2
            /\ res.v[GetItem(res, argA.v[i].k)].val # argA.v[i].val

(***************************************************************************)
(* C2 as written: on two lists of strings merge_lists keeps, for each      *)
(* lowercase form, the first spelling seen in existing followed by         *)
(* incoming, and returns the kept spellings sorted by lowercase form.      *)
(***************************************************************************)
FirstSpelling(xs, lk) == xs[CHOOSE i \in 1..Len(xs) :
                                /\ lower(xs[i].v) = lk
                                /\ \A j \in 1..(i - 1) : lower(xs[j].v) # lk]

LastSpelling(xs, lk) == xs[CHOOSE i \in 1..Len(xs) :
                                /\ lower(xs[i].v) = lk
                                /\ \A j \in (i + 1)..Len(xs) : lower(xs[j].v) # lk]

LowerForms(xs) == {lower(xs[i].v) : i \in 1..Len(xs)}

SortedByLower(xs) ==
    \A i \in 1..(Len(xs) - 1) : StrLess(lower(xs[i].v), lower(xs[i + 1].v))

C2_FirstSeenSpellingKept ==
    (op = "merge_lists" /\ AllStr(argA.v \o argB.v)) =>
        /\ LowerForms(res.v) = LowerForms(argA.v \o argB.v)
        /\ SortedByLower(res.v)
        /\ \A i \in 1..Len(res.v) :
                res.v[i] = FirstSpelling(argA.v \o argB.v, lower(res.v[i].v))

(***************************************************************************)
(* C2 amended: on two lists of strings merge_lists keeps, for each         *)
(* lowercase form, the last spelling in existing when existing has one,    *)
(* and otherwise the first spelling in incoming (an incoming element never *)
(* replaces a spelling already indexed, a later existing element does);    *)
(* the result is the kept spellings sorted by lowercase form.              *)
(***************************************************************************)
C2_ExistingSpellingKept ==
    (op = "merge_lists" /\ AllStr(argA.v \o argB.v)) =>
        /\ LowerForms(res.v) = LowerForms(argA.v \o argB.v)
        /\ SortedByLower(res.v)
        /\ \A i \in 1..Len(res.v) :
                res.v[i] = IF lower(res.v[i].v) \in LowerForms(argA.v)
                           THEN LastSpelling(argA.v, lower(res.v[i].v))
                           ELSE FirstSpelling(argB.v, lower(res.v[i].v))

\* merge_lists(["B", "b"], ["B", "a"]) = ["a", "b"]
C2_Witness ==
    /\ op = "merge_lists"
    /\ argA = PyList(<<sB, sb>>)
    /\ argB = PyList(<<sB, sA>>)
    /\ res = PyList(<<sA, sb>>)

(***************************************************************************)
(* C3: the output of merge_lists holds exactly the distinct elements of    *)
(* existing and incoming: every input element has an equal element in the  *)
(* output and no two output elements are equal (ignoring case when all     *)
(* elements are strings, Python equality otherwise).                       *)
(***************************************************************************)
C3_DistinctUnion ==
    op = "merge_lists" =>
        LET allstr == AllStr(argA.v \o argB.v)
        IN  /\ \A i \in 1..Len(argA.v \o argB.v) : \E j \in 1..Len(res.v) :
                    SameElement(allstr, (argA.v \o argB.v)[i], res.v[j])
            /\ \A i, j \in 1..Len(res.v) :
                    i < j => ~SameElement(allstr, res.v[i], res.v[j])

(***************************************************************************)
(* C4: in merge_yaml, a key on both sides whose values are neither both    *)
(* dicts nor both lists ends with the incoming value when the existing one *)
(* is a scalar, and with the existing value unchanged otherwise; nothing   *)
(* is raised.                                                              *)
(***************************************************************************)
IsScalar(x) == ~(isinstance(x, "dict") \/ isinstance(x, "list"))

Mismatched(old_val, new_val) ==
    /\ ~(isinstance(old_val, "dict") /\ isinstance(new_val, "dict"))
    /\ ~(isinstance(old_val, "list") /\ isinstance(new_val, "list"))

C4_ScalarOverwrittenMismatchKept ==
    op = "merge_yaml" =>
        /\ res # Raise
        /\ \A key \in Keys(argA) \cap Keys(argB) :
                Mismatched(Lookup(argA, key), Lookup(argB, key)) =>
                    Lookup(res, key) = IF IsScalar(Lookup(argA, key))
                                       THEN Lookup(argB, key)
                                       ELSE Lookup(argA, key)

\* one key with a scalar replaced by a list, one with a dict kept against a scalar
C4_Witness ==
    /\ op = "merge_yaml"
    /\ \E k1, k2 \in Keys(argA) \cap Keys(argB) :
            /\ IsScalar(Lookup(argA, k1)) /\ isinstance(Lookup(argB, k1), "list")
            /\ Lookup(res, k1) = Lookup(argB, k1)
            /\ isinstance(Lookup(argA, k2), "dict") /\ Lookup(argA, k2).v # <<>>
            /\ IsScalar(Lookup(argB, k2))
            /\ Lookup(res, k2) = Lookup(argA, k2)

(***************************************************************************)
(* C9: sort_dict is idempotent and only rearranges: the result holds the   *)
(* same scalars, and every dict of it the same keys, as the argument.      *)
(***************************************************************************)
C9_SortDictIdempotentRearranges ==
    op = "sort_dict" =>
        /\ sort_dict(res) = res
        /\ Content(res) = Content(argA)

C9_Witness ==
    /\ op = "sort_dict"
    /\ res # argA
    /\ isinstance(argA, "dict")
    /\ \E i \in 1..Len(argA.v) :
            /\ isinstance(argA.v[i].val, "list")
            /\ \E j \in 1..(Len(argA.v[i].val.v) - 1) :
                    py_eq(argA.v[i].val.v[j], argA.v[i].val.v[j + 1])

(***************************************************************************)
(* Helpers of the properties of a run.                                     *)
(***************************************************************************)
Finished == tool = "extract" /\ pc = "done"

LinesOf(file) == IF file = NoFile THEN {} ELSE {file.v[i] : i \in 1..Len(file.v)}

ExistingEntries(file) == IF file = NoFile THEN {} ELSE read_lines(file.v)

StrictlyAscending(lines) ==
    \A i \in 1..(Len(lines) - 1) : StrLess(lines[i], lines[i + 1])

EffectOrder ==
    <<"read_source", "read_existing", "merge", "write_primary", "write_compressed", "publish">>

IsPrefix(xs, ys) == Len(xs) <= Len(ys) /\ \A i \in 1..Len(xs) : xs[i] = ys[i]

(***************************************************************************)
(* C5: a second run with the same source, against the files the first run  *)
(* left, leaves the output file and the compressed file as they were.      *)
(***************************************************************************)
C5_RerunLeavesArtifacts ==
    (Finished /\ rerun /\ exitCode = 0) =>
        (primary = before.primary /\ compFile = before.compFile)

(***************************************************************************)
(* C6 as written: in the line-list path an extracted entry that differs    *)
(* only in case from a line of the file adds no line, and the file alpha,  *)
(* beta merged with {Beta, gamma} is the three lines alpha, beta, gamma.   *)
(***************************************************************************)
C6_CaseInsensitiveLines ==
    (Finished /\ kind \in ListKinds /\ exitCode = 0) =>
        /\ \A e \in obj.v :
                (\E x \in ExistingEntries(before.primary) : x # e /\ lower(x) = lower(e))
                    => e \notin LinesOf(primary) \ LinesOf(before.primary)
        /\ (before.primary = TextFile(<<alpha, beta>>) /\ obj.v = {Beta, gamma})
                => primary = TextFile(<<alpha, beta, gamma>>)

(***************************************************************************)
(* C6 amended: in the line-list path entries are deduplicated by exact,    *)
(* case-sensitive comparison: a run that extracts an entry not among the   *)
(* stripped non-empty lines of the file rewrites the file as those lines   *)
(* and the extracted entries, each once, in code-point order, so an entry  *)
(* that differs only in case from a line is added as a line of its own;    *)
(* the file alpha, beta merged with {Beta, gamma} is the four lines Beta,  *)
(* alpha, beta, gamma.  A run that extracts nothing new writes nothing.    *)
(***************************************************************************)
C6_CaseSensitiveLines ==
    (Finished /\ kind \in ListKinds /\ exitCode = 0) =>
        /\ IF obj.v \subseteq ExistingEntries(before.primary)
           THEN primary = before.primary
           ELSE /\ LinesOf(primary) = ExistingEntries(before.primary) \cup obj.v
                /\ StrictlyAscending(primary.v)
        /\ (before.primary = TextFile(<<alpha, beta>>) /\ obj.v = {Beta, gamma})
                => primary = TextFile(<<Beta, alpha, beta, gamma>>)

C6_Witness ==
    /\ Finished /\ kind \in ListKinds /\ exitCode = 0
    /\ before.primary = TextFile(<<alpha, beta>>)
    /\ obj.v = {Beta, gamma}
    /\ primary = TextFile(<<Beta, alpha, beta, gamma>>)

(***************************************************************************)
(* C7: whatever runs came before, for any subtree kind, every dict of the  *)
(* written YAML file has its keys in case-insensitive order.               *)
(***************************************************************************)
C7_WrittenKeysSorted ==
    (kind \in TreeKinds /\ primary # NoFile) => KeysSorted(safe_load(primary))

(***************************************************************************)
(* C8: a run whose publish step finds no constant to replace               *)
(* (update_blob_constant returns False) ends with a non-zero exit code.    *)
(***************************************************************************)
C8_FailedPublishExitsNonZero ==
    (pc = "done" /\ published = "failed") => exitCode # 0

(***************************************************************************)
(* C10: the file effects of an extraction step come in the order read      *)
(* source, read existing, merge, write output, write compressed, publish;  *)
(* a run that fails reading the source, extracting or merging leaves the   *)
(* output file, the compressed file and blobs.js as they were, and a run   *)
(* whose publish fails leaves the output and the compressed file it wrote. *)
(***************************************************************************)
C10_WritesFollowTheMerge ==
    tool = "extract" =>
        /\ IsPrefix(log, EffectOrder)
        /\ (Len(log) < 4 => primary = before.primary)
        /\ (Len(log) < 5 => compFile = before.compFile)
        /\ (Len(log) < 6 => blobs = before.blobs)
        /\ (pc = "done" /\ fault \in {"read_source", "extract", "merge"})
                => (primary = before.primary /\ compFile = before.compFile
                        /\ blobs = before.blobs)
        /\ (pc = "done" /\ published = "failed")
                => /\ primary = (IF kind \in ListKinds THEN merged ELSE safe_dump(merged))
                   /\ compFile = Compressed(kind, merged)
                   /\ blobs = before.blobs

\* a merge that raised against an existing file, and a failed publish after both writes
C10_Witness ==
    /\ Finished
    /\ \/ fault = "merge" /\ before.primary # NoFile /\ primary = before.primary
       \/ published = "failed" /\ primary # before.primary /\ compFile # before.compFile

(***************************************************************************)
(* Helpers of the growth property.  Kept(old, new): every key of every     *)
(* dict of old is in new at the same path, a dict is still a dict and a    *)
(* list still a list, and every str of a list of old has an entry equal to *)
(* it ignoring case in the list of new; a scalar may be any value in new.  *)
(***************************************************************************)
RECURSIVE Kept(_, _)
Kept(old, new) ==
    CASE old.t = "dict" ->
            /\ new.t = "dict"
            /\ \A i \in 1..Len(old.v) :
                    /\ Contains(new, old.v[i].k)
                    /\ Kept(old.v[i].val, Lookup(new, old.v[i].k))
      [] old.t = "list" ->
            /\ new.t = "list"
            /\ \A i \in 1..Len(old.v) :
                    isinstance(old.v[i], "str") =>
                        \E j \in 1..Len(new.v) :
                            /\ isinstance(new.v[j], "str")
                            /\ lower(new.v[j].v) = lower(old.v[i].v)
      [] OTHER -> TRUE

LinesKept == LinesOf(before.primary) \subseteq LinesOf(primary)

TreeKept ==
    before.primary # NoFile =>
        (primary # NoFile /\ Kept(safe_load(before.primary), safe_load(primary)))

(***************************************************************************)
(* C11: the dataset only grows: whatever a run extracts, every line of the *)
(* line list, every key of the YAML file at its path and every entry of a  *)
(* list of strings (up to letter case) that the file held when the run     *)
(* started is in the file at every point of the run and after it; only     *)
(* scalar values are replaced.                                             *)
(***************************************************************************)
C11_DatasetOnlyGrows ==
    IF kind \in ListKinds THEN LinesKept ELSE TreeKept
====
